---- MODULE Spec2Model ----
(***************************************************************************)
(* Model of deepchem/feat/base_classes.py: the batch featurizers           *)
(* (Featurizer, MolecularFeaturizer, StructureFeaturizer,                  *)
(* CompositionFeaturizer) and ComplexFeaturizer.featurize_complexes over a *)
(* multiprocessing pool.  One behaviour is one call of one entry point.    *)
(***************************************************************************)
EXTENDS Integers, Sequences, FiniteSets, TLC

VARIABLES
  kind,          \* class of the object the entry point is called on
  entry,         \* "featurize" | "__call__" | "featurize_complexes"
  arg,           \* the first positional argument of a batch call
  log_every_n,   \* the log_every_n argument of featurize
  capability,    \* TRUE iff the parsing library the class imports is installed
  pc,            \* position of the calling process in the entry point
  datapoints,    \* the materialised input list (datapoints / molecules / ...)
  i,             \* loop index of the featurize loop
  features,      \* the local list `features`
  log,           \* messages handed to the logging sink, in emission order
  ret,           \* the value returned to the caller
  exc,           \* the exception raised to the caller
  mol_files,     \* featurize_complexes argument
  protein_pdbs,  \* featurize_complexes argument
  results,       \* the local list `results` of AsyncResult objects
  taskq,         \* the pool's task queue (indices into results)
  closed,        \* TRUE once pool.close() was called
  worker,        \* state of every worker process of the pool
  ind,           \* loop index of the aggregation loop
  failures,      \* the local list `failures`
  worker_log,    \* messages the worker processes handed to their logging sinks
  completed      \* history: task indices in the order the workers finished them

vars == <<kind, entry, arg, log_every_n, capability, pc, datapoints, i, features,
          log, ret, exc, mol_files, protein_pdbs, results, taskq, closed, worker,
          ind, failures, worker_log, completed>>

batchVars == <<datapoints, i, features, log, ret, exc>>
poolVars == <<mol_files, protein_pdbs, results, taskq, closed, worker, ind,
              failures, worker_log, completed>>
callVars == <<kind, entry, arg, log_every_n, capability>>

----------------------------------------------------------------------------
(* Bounds of the model. *)

\* longest input sequence of a batch call
MaxLen == 3
\* largest number of (molecule, protein) pairs of a featurize_complexes call
MaxPairs == 3

\* default of the log_every_n parameter
DefaultLogEveryN == 1000

\* values of log_every_n a caller passes explicitly
LogChoices == {-2, 0, 1, 2}

\* worker processes of the pool
Workers == {"w1", "w2"}

----------------------------------------------------------------------------
(* Python values.  Every value is a record of the same shape: its type, its *)
(* characters or keys (str, dict, parsed objects) and its elements (list,   *)
(* ndarray).                                                                *)

Val(t, chars, elems) == [t |-> t, chars |-> chars, elems |-> elems]

Str(cs) == Val("str", cs, <<>>)
Mol(name) == Val("Mol", <<name>>, <<>>)
Dict(keys) == Val("dict", keys, <<>>)
List(es) == Val("list", <<>>, es)
None == Val("NoneType", <<>>, <<>>)
Exception(name) == Val("Exception", <<name>>, <<>>)
\* no value yet (a local that has not been assigned)
Unset == Val("unset", <<>>, <<>>)

\* np.array([]): the empty one-dimensional array
EmptyArray == Val("ndarray", <<"float64">>, <<>>)

IsException(v) == v.t = "Exception"

Range(s) == {s[k] : k \in 1..Len(s)}

\* the items a caller passes: strings of one and two characters, an RDKit
\* molecule, and structure dictionaries (given by their keys)
Items ==
  { Str(<<"a", "b">>), Str(<<"x">>), Str(<<"h">>), Mol("m"),
    Dict(<<"a", "b">>), Dict(<<"h">>) }

\* isinstance(v, Iterable)
IsIterable(v) == v.t \in {"str", "dict", "list"}

\* list(v) for an iterable v: the characters of a str as one-character strs,
\* the keys of a dict, the elements of a list
ListOf(v) ==
  IF v.t = "list" THEN v.elems
  ELSE [k \in 1..Len(v.chars) |-> Str(<<v.chars[k]>>)]

----------------------------------------------------------------------------
(* String formatting and Python arithmetic. *)

DigitStr == <<"0", "1", "2", "3", "4", "5", "6", "7", "8", "9">>

\* the decimal digits of a natural number, as "%d" / "%i" print it
RECURSIVE ToDecimal(_)
ToDecimal(n) ==
  IF n < 10 THEN <<DigitStr[n + 1]>>
  ELSE ToDecimal(n \div 10) \o <<DigitStr[(n % 10) + 1]>>

IsDirective(tok) == tok \in {"%d", "%i"}

\* fmt % args: every conversion directive of fmt, left to right, is replaced by
\* the decimal form of the next argument
RECURSIVE Format(_, _)
Format(fmt, args) ==
  IF fmt = <<>> THEN <<>>
  ELSE IF IsDirective(Head(fmt)) /\ args # <<>>
       THEN ToDecimal(Head(args)) \o Format(Tail(fmt), Tail(args))
       ELSE <<Head(fmt)>> \o Format(Tail(fmt), args)

\* a % b of Python ints for a >= 0 and b # 0: the result has the sign of b
PyMod(a, b) ==
  IF b > 0 THEN a % b
  ELSE IF a % (0 - b) = 0 THEN 0 ELSE (a % (0 - b)) + b

PyInt(n) == Val("int", ToDecimal(n), <<>>)

Record(level, text) == [level |-> level, text |-> text]

----------------------------------------------------------------------------
(* The collaborators of the batch featurizers: the parsers of RDKit and     *)
(* pymatgen and the _featurize hook of the concrete subclass.  They are     *)
(* fixed pure functions that cover every outcome the loop distinguishes:    *)
(* an "x" makes a string or a dictionary unparseable, an "h" makes the hook *)
(* raise.                                                                   *)

\* Chem.MolFromSmiles(s): a molecule, or None for an invalid SMILES string
MolFromSmiles(s) ==
  IF "x" \in Range(s.chars) THEN None ELSE Val("Mol", s.chars, <<>>)

\* Structure.from_dict(d)
StructureFromDict(d) ==
  IF d.t = "dict" /\ "x" \notin Range(d.chars)
  THEN Val("Structure", d.chars, <<>>)
  ELSE Exception("TypeError")

\* Composition(c)
Composition(c) ==
  IF c.t = "str" /\ "x" \notin Range(c.chars)
  THEN Val("Composition", c.chars, <<>>)
  ELSE Exception("CompositionError")

\* self._featurize(obj): a feature vector that identifies obj, or an exception
Hook(obj) ==
  IF obj.t = "NoneType" \/ "h" \in Range(obj.chars)
  THEN Exception("FeaturizeError")
  ELSE Val("ndarray", <<"float64">>, <<obj>>)

\* np.asarray(rows): rows of one width make a numeric array, rows of different
\* widths an array of objects (the numpy releases the module was written for
\* build it; they do not reject ragged rows); the rows keep their order
AsArray(rows) ==
  IF \A j, k \in 1..Len(rows) : Len(rows[j].elems) = Len(rows[k].elems)
  THEN Val("ndarray", <<"float64">>, rows)
  ELSE Val("ndarray", <<"object">>, rows)

----------------------------------------------------------------------------
(* The batch featurizers. *)

BatchKinds ==
  {"Featurizer", "MolecularFeaturizer", "StructureFeaturizer",
   "CompositionFeaturizer"}

\* the classes whose featurize imports a parsing library
NeedsImport(k) == k # "Featurizer"

\* the statements inside `try:` for one item: parse, then the hook
TryBody(k, item) ==
  CASE k = "Featurizer" -> Hook(item)
    [] k = "MolecularFeaturizer" ->
         Hook(IF item.t = "str" THEN MolFromSmiles(item) ELSE item)
    [] k = "StructureFeaturizer" ->
         LET s == StructureFromDict(item)
         IN IF IsException(s) THEN s ELSE Hook(s)
    [] k = "CompositionFeaturizer" ->
         LET c == Composition(item)
         IN IF IsException(c) THEN c ELSE Hook(c)

\* the input-normalisation statements: the list the loop runs over, or the
\* exception list() raises
Materialize(v) ==
  IF IsIterable(v) THEN List(ListOf(v)) ELSE Exception("TypeError")

Normalized(k, v) ==
  CASE k = "Featurizer" -> Materialize(v)
    [] k = "MolecularFeaturizer" ->
         IF v.t = "str" \/ v.t = "Mol" THEN List(<<v>>) ELSE Materialize(v)
    [] k \in {"StructureFeaturizer", "CompositionFeaturizer"} ->
         IF ~IsIterable(v) THEN List(<<v>>) ELSE Materialize(v)

\* the progress message of index n
ProgressRecord(n) ==
  Record("info", Format(<<"Featurizing datapoint ", "%i">>, <<n>>))

\* the warning of the except clause for index n
WarningRecord(k, n) ==
  IF k \in {"Featurizer", "MolecularFeaturizer"}
  THEN Record("warning",
              <<"Failed to featurize datapoint ", "%d", ". Appending empty array">>)
  ELSE Record("warning",
              Format(<<"Failed to featurize datapoint ", "%i",
                       ". Appending empty array">>, <<n>>))

\* what the except clause appends
ExceptValue == EmptyArray

\* the sequences over S of length at most n
SeqsUpTo(S, n) == UNION {[1..k -> S] : k \in 0..n}

\* where featurize starts: the molecular class imports first, the others
\* normalise their input first
FirstStage(k) == IF k = "MolecularFeaturizer" THEN "import" ELSE "normalize"

\* mutant of AfterNormalize: the import of the parsing library is skipped
AfterNormalize_NoImport(k) == "loop"

\* where featurize goes after the normalisation of its input
AfterNormalize(k) ==
  IF k \in {"StructureFeaturizer", "CompositionFeaturizer"} THEN "import" ELSE "loop"

\* where featurize goes after a successful import
AfterImport(k) == IF k = "MolecularFeaturizer" THEN "normalize" ELSE "loop"

\* mutant of ProgressDue: index 0 is not reported
ProgressDue_SkipFirst(n, every) == n # 0 /\ PyMod(n, every) = 0

\* `if i % log_every_n == 0` for a non-zero log_every_n
ProgressDue(n, every) == PyMod(n, every) = 0

\* the log after the loop body ran for index n on item
StepLog(k, n, every, item, lg) ==
  LET logged == IF ProgressDue(n, every) THEN Append(lg, ProgressRecord(n)) ELSE lg
  IN IF IsException(TryBody(k, item))
     THEN Append(logged, WarningRecord(k, n))
     ELSE logged

\* mutant of StepFeatures: a failed item gets no entry
StepFeatures_DropFailed(k, item, feats) ==
  IF IsException(TryBody(k, item))
  THEN feats
  ELSE Append(feats, TryBody(k, item))

\* the list `features` after the loop body ran on item
StepFeatures(k, item, feats) ==
  IF IsException(TryBody(k, item))
  THEN Append(feats, ExceptValue)
  ELSE Append(feats, TryBody(k, item))

\* a unit of work of the pool: _featurize_complex with its arguments; idx is
\* the position of its AsyncResult in `results` (0-based)
Task(idx, mol, protein, msg) ==
  [idx |-> idx, mol |-> mol, protein |-> protein, log_message |-> msg]

NoTask == Task(0, Unset, Unset, <<>>)

\* a worker process that holds no task
Idle == [state |-> "idle", task |-> NoTask]

BatchInit ==
  /\ kind \in BatchKinds
  /\ entry \in {"featurize", "__call__"}
  /\ arg \in Items \cup {List(s) : s \in SeqsUpTo(Items, MaxLen)}
  /\ log_every_n \in IF entry = "__call__" THEN {DefaultLogEveryN} ELSE LogChoices
  /\ capability \in IF NeedsImport(kind) THEN BOOLEAN ELSE {TRUE}
  /\ pc = FirstStage(kind)
  /\ datapoints = <<>>
  /\ i = 0
  /\ features = <<>>
  /\ log = <<>>
  /\ ret = Unset
  /\ exc = Unset
  /\ mol_files = <<>>
  /\ protein_pdbs = <<>>
  /\ results = <<>>
  /\ taskq = <<>>
  /\ closed = FALSE
  /\ worker = [w \in Workers |-> Idle]
  /\ ind = 0
  /\ failures = <<>>
  /\ worker_log = {}
  /\ completed = <<>>

\* try: from rdkit / pymatgen import ...  except ModuleNotFoundError: raise ValueError
ImportCheck ==
  /\ pc = "import"
  /\ IF capability
     THEN /\ pc' = AfterImport(kind)
          /\ exc' = exc
     ELSE /\ pc' = "raised"
          /\ exc' = Exception("ValueError")
  /\ UNCHANGED <<datapoints, i, features, log, ret>>
  /\ UNCHANGED <<callVars, poolVars>>

\* the special-case wrapping of a single item and list(...)
Normalize ==
  /\ pc = "normalize"
  /\ LET v == Normalized(kind, arg)
     IN IF IsException(v)
        THEN /\ pc' = "raised"
             /\ exc' = v
             /\ datapoints' = datapoints
        ELSE /\ pc' = AfterNormalize(kind)
             /\ exc' = exc
             /\ datapoints' = v.elems
  /\ UNCHANGED <<i, features, log, ret>>
  /\ UNCHANGED <<callVars, poolVars>>

\* mutant of FeaturizeStep: the loop body has no try statement, so the
\* exception of a failing item leaves featurize
FeaturizeStep_Propagate ==
  /\ pc = "loop"
  /\ i < Len(datapoints)
  /\ IF log_every_n = 0
     THEN /\ pc' = "raised"
          /\ exc' = Exception("ZeroDivisionError")
          /\ UNCHANGED <<i, features, log>>
     ELSE IF IsException(TryBody(kind, datapoints[i + 1]))
     THEN /\ pc' = "raised"
          /\ exc' = TryBody(kind, datapoints[i + 1])
          /\ log' = IF ProgressDue(i, log_every_n)
                    THEN Append(log, ProgressRecord(i)) ELSE log
          /\ UNCHANGED <<i, features>>
     ELSE /\ log' = StepLog(kind, i, log_every_n, datapoints[i + 1], log)
          /\ features' = StepFeatures(kind, datapoints[i + 1], features)
          /\ i' = i + 1
          /\ UNCHANGED <<pc, exc>>
  /\ UNCHANGED <<datapoints, ret>>
  /\ UNCHANGED <<callVars, poolVars>>

\* one iteration of `for i, point in enumerate(datapoints)`
FeaturizeStep ==
  /\ pc = "loop"
  /\ i < Len(datapoints)
  /\ IF log_every_n = 0
     THEN \* i % 0 raises outside the try statement
          /\ pc' = "raised"
          /\ exc' = Exception("ZeroDivisionError")
          /\ UNCHANGED <<i, features, log>>
     ELSE /\ log' = StepLog(kind, i, log_every_n, datapoints[i + 1], log)
          /\ features' = StepFeatures(kind, datapoints[i + 1], features)
          /\ i' = i + 1
          /\ UNCHANGED <<pc, exc>>
  /\ UNCHANGED <<datapoints, ret>>
  /\ UNCHANGED <<callVars, poolVars>>

\* features = np.asarray(features); return features
FeaturizeReturn ==
  /\ pc = "loop"
  /\ i = Len(datapoints)
  /\ ret' = AsArray(features)
  /\ pc' = "returned"
  /\ UNCHANGED <<datapoints, i, features, log, exc>>
  /\ UNCHANGED <<callVars, poolVars>>

----------------------------------------------------------------------------
(* ComplexFeaturizer.featurize_complexes. *)

\* the (molecule file, protein file) pairs a caller passes.  The protein file
\* decides what the _featurize_complex hook of the subclass does with the
\* pair: "ok" returns features, "null" returns None, "raise" raises, "hang"
\* never returns.
PairUniverse ==
  { <<Str(<<"m1">>), Str(<<"ok">>)>>, <<Str(<<"m2">>), Str(<<"ok">>)>>,
    <<Str(<<"m1">>), Str(<<"null">>)>>,
    <<Str(<<"m1">>), Str(<<"raise">>)>>, <<Str(<<"m2">>), Str(<<"raise">>)>>,
    <<Str(<<"m1">>), Str(<<"hang">>)>> }

\* whether featurizer._featurize_complex(mol, protein) returns or raises at all
Terminates(mol, protein) == protein.chars # <<"hang">>

\* featurizer._featurize_complex(mol, protein) when it terminates: features
\* that identify the pair, None, or an exception that identifies the pair
ComplexHook(mol, protein) ==
  CASE protein.chars = <<"null">> -> None
    [] protein.chars = <<"raise">> ->
         Val("Exception", <<"ComplexError">> \o mol.chars \o protein.chars, <<>>)
    [] OTHER -> Val("ndarray", <<"float64">>, <<mol, protein>>)

Min(a, b) == IF a <= b THEN a ELSE b

\* zip(a, b)
Zip(a, b) == [k \in 1..Min(Len(a), Len(b)) |-> <<a[k], b[k]>>]

\* "Featurizing %d / %d" % (n, len(mol_files))
LogMessage(n, total) ==
  Format(<<"Featurizing ", "%d", " / ", "%d">>, <<n, total>>)

\* an AsyncResult: not ready until a worker stored the outcome of its task
Pending == [ready |-> FALSE, value |-> Unset]
Ready(v) == [ready |-> TRUE, value |-> v]

PoolInit ==
  /\ kind = "ComplexFeaturizer"
  /\ entry = "featurize_complexes"
  /\ arg = Unset
  /\ log_every_n = DefaultLogEveryN
  /\ capability = TRUE
  /\ pc = "submit"
  /\ datapoints = <<>>
  /\ i = 0
  /\ features = <<>>
  /\ log = <<>>
  /\ ret = Unset
  /\ exc = Unset
  /\ \E pairs \in SeqsUpTo(PairUniverse, MaxPairs) :
       /\ mol_files = [k \in 1..Len(pairs) |-> pairs[k][1]]
       /\ protein_pdbs = [k \in 1..Len(pairs) |-> pairs[k][2]]
  /\ results = <<>>
  /\ taskq = <<>>
  /\ closed = FALSE
  /\ worker = [w \in Workers |-> Idle]
  /\ ind = 0
  /\ failures = <<>>
  /\ worker_log = {}
  /\ completed = <<>>

Running == pc \in {"submit", "collect"}

\* mutant of ResultSlot: outcomes are stored in the order the tasks finish
ResultSlot_Arrival(task) == Len(completed) + 1

\* the AsyncResult slot a finished task's outcome is stored in
ResultSlot(task) == task.idx + 1

\* the AsyncResult the aggregation loop retrieves at loop index n
RetrieveSlot(n) == n + 1

\* one iteration of the submission loop: results.append(pool.apply_async(...))
Submit ==
  /\ pc = "submit"
  /\ ~closed
  /\ i < Len(Zip(mol_files, protein_pdbs))
  /\ LET pair == Zip(mol_files, protein_pdbs)[i + 1]
     IN taskq' = Append(taskq, Task(i, pair[1], pair[2],
                                   LogMessage(i, Len(mol_files))))
  /\ results' = Append(results, Pending)
  /\ i' = i + 1
  /\ UNCHANGED <<pc, datapoints, features, log, ret, exc>>
  /\ UNCHANGED <<mol_files, protein_pdbs, closed, worker, ind, failures, worker_log, completed>>
  /\ UNCHANGED callVars

\* pool.close(); features = []; failures = []
PoolClose ==
  /\ pc = "submit"
  /\ i = Len(Zip(mol_files, protein_pdbs))
  /\ closed' = TRUE
  /\ pc' = "collect"
  /\ features' = <<>>
  /\ failures' = <<>>
  /\ UNCHANGED <<datapoints, i, log, ret, exc>>
  /\ UNCHANGED <<mol_files, protein_pdbs, results, taskq, worker, ind, worker_log, completed>>
  /\ UNCHANGED callVars

\* mutant of WorkerStart: the pool is terminated, not closed, so the workers
\* take no task once the submission loop is over
WorkerStart_UntilClose(w) ==
  /\ Running
  /\ ~closed
  /\ worker[w].state = "idle"
  /\ taskq # <<>>
  /\ worker' = [worker EXCEPT ![w] = [state |-> "running", task |-> Head(taskq)]]
  /\ taskq' = Tail(taskq)
  /\ worker_log' = worker_log \cup {Record("info", Head(taskq).log_message)}
  /\ UNCHANGED <<pc, batchVars, callVars>>
  /\ UNCHANGED <<mol_files, protein_pdbs, results, closed, ind, failures, completed>>

\* an idle worker process takes the oldest queued task and calls
\* _featurize_complex, whose first statement is logging.info(log_message).
\* The message goes to the sink of the worker's own process: the sinks of the
\* workers are unordered, and the statement commutes with every other step.
WorkerStart(w) ==
  /\ Running
  /\ worker[w].state = "idle"
  /\ taskq # <<>>
  /\ worker' = [worker EXCEPT ![w] = [state |-> "running", task |-> Head(taskq)]]
  /\ taskq' = Tail(taskq)
  /\ worker_log' = worker_log \cup {Record("info", Head(taskq).log_message)}
  /\ UNCHANGED <<pc, batchVars, callVars>>
  /\ UNCHANGED <<mol_files, protein_pdbs, results, closed, ind, failures, completed>>

\* _featurize_complex, second statement: the hook returns or raises, and the
\* pool stores the outcome in the task's AsyncResult
WorkerFinish(w) ==
  /\ Running
  /\ worker[w].state = "running"
  /\ Terminates(worker[w].task.mol, worker[w].task.protein)
  /\ results' = [results EXCEPT ![ResultSlot(worker[w].task)] =
                   Ready(ComplexHook(worker[w].task.mol, worker[w].task.protein))]
  /\ completed' = Append(completed, worker[w].task.idx)
  /\ worker' = [worker EXCEPT ![w] = Idle]
  /\ UNCHANGED <<pc, batchVars, callVars>>
  /\ UNCHANGED <<mol_files, protein_pdbs, taskq, closed, ind, failures, worker_log>>

\* mutant of Aggregate: a failed pair also gets an empty row, as in the batch
\* featurizers
Aggregate_Placeholder(feats, fails, n, new_features) ==
  IF new_features # None
  THEN <<Append(feats, new_features), fails>>
  ELSE <<Append(feats, EmptyArray), Append(fails, PyInt(n))>>

\* the lists `features` and `failures` after new_features was retrieved at
\* loop index n
Aggregate(feats, fails, n, new_features) ==
  IF new_features # None
  THEN <<Append(feats, new_features), fails>>
  ELSE <<feats, Append(fails, PyInt(n))>>

\* mutant of GetResult: the exception of a task is caught and recorded as a
\* failure
GetResult_Swallow ==
  /\ pc = "collect"
  /\ ind < Len(results)
  /\ results[RetrieveSlot(ind)].ready
  /\ LET new_features == results[RetrieveSlot(ind)].value
     IN IF IsException(new_features)
        THEN /\ failures' = Append(failures, PyInt(ind))
             /\ ind' = ind + 1
             /\ UNCHANGED <<pc, exc, features>>
        ELSE /\ features' = Aggregate(features, failures, ind, new_features)[1]
             /\ failures' = Aggregate(features, failures, ind, new_features)[2]
             /\ ind' = ind + 1
             /\ UNCHANGED <<pc, exc>>
  /\ UNCHANGED <<datapoints, i, log, ret, callVars>>
  /\ UNCHANGED <<mol_files, protein_pdbs, results, taskq, closed, worker, worker_log,
                 completed>>

\* one iteration of the aggregation loop: result.get() blocks until the result
\* is ready and re-raises the exception of the task
GetResult ==
  /\ pc = "collect"
  /\ ind < Len(results)
  /\ results[RetrieveSlot(ind)].ready
  /\ LET new_features == results[RetrieveSlot(ind)].value
     IN IF IsException(new_features)
        THEN /\ pc' = "raised"
             /\ exc' = new_features
             /\ UNCHANGED <<features, failures, ind>>
        ELSE /\ features' = Aggregate(features, failures, ind, new_features)[1]
             /\ failures' = Aggregate(features, failures, ind, new_features)[2]
             /\ ind' = ind + 1
             /\ UNCHANGED <<pc, exc>>
  /\ UNCHANGED <<datapoints, i, log, ret, callVars>>
  /\ UNCHANGED <<mol_files, protein_pdbs, results, taskq, closed, worker, worker_log,
                 completed>>

\* features = np.asarray(features); return features, failures
ComplexReturn ==
  /\ pc = "collect"
  /\ ind = Len(results)
  /\ ret' = Val("tuple", <<>>, <<AsArray(features), List(failures)>>)
  /\ pc' = "returned"
  /\ UNCHANGED <<datapoints, i, features, log, exc, callVars>>
  /\ UNCHANGED poolVars

----------------------------------------------------------------------------
(* Specifications. *)

Init == BatchInit \/ PoolInit

Next ==
  \/ ImportCheck
  \/ Normalize
  \/ FeaturizeStep
  \/ FeaturizeReturn
  \/ Submit
  \/ PoolClose
  \/ \E w \in Workers : WorkerStart(w)
  \/ \E w \in Workers : WorkerFinish(w)
  \/ GetResult
  \/ ComplexReturn

Spec == Init /\ [][Next]_vars

PoolNext ==
  \/ Submit
  \/ PoolClose
  \/ \E w \in Workers : WorkerStart(w)
  \/ \E w \in Workers : WorkerFinish(w)
  \/ GetResult
  \/ ComplexReturn

\* the calling process keeps running and the operating system schedules every
\* worker process
PoolFairness ==
  /\ WF_vars(Submit)
  /\ WF_vars(PoolClose)
  /\ WF_vars(GetResult)
  /\ WF_vars(ComplexReturn)
  /\ \A w \in Workers :
       WF_vars(WorkerStart(w)) /\ WF_vars(WorkerFinish(w))

PoolFairSpec == PoolInit /\ [][PoolNext]_vars /\ PoolFairness

----------------------------------------------------------------------------
(* Vocabulary of the properties. *)

IsBatch == kind \in BatchKinds
IsComplex == kind = "ComplexFeaturizer"

\* the item's parse step or hook raises
ItemFails(k, item) == IsException(TryBody(k, item))

\* the per-item result: the hook's value, or the empty array when the item failed
ItemResult(k, item) == IF ItemFails(k, item) THEN EmptyArray ELSE TryBody(k, item)

\* the elements of a finite set of integers in increasing order
SortedSeq(S) ==
  CHOOSE s \in [1..Cardinality(S) -> S] :
    \A a, b \in 1..Cardinality(S) : a < b => s[a] < s[b]

\* d occurs in text as a run of consecutive tokens
Contains(text, d) ==
  \E p \in 1..Len(text) :
    p + Len(d) - 1 <= Len(text) /\ SubSeq(text, p, p + Len(d) - 1) = d

IsInfo(r) == r.level = "info"
IsWarning(r) == r.level = "warning"

\* n is a multiple of every (every # 0)
Multiple(n, every) == \E q \in 0..n : n = q * (IF every < 0 THEN 0 - every ELSE every)

\* number of pairs of the featurize_complexes call
NumPairs == Len(Zip(mol_files, protein_pdbs))

\* what the hook does with pair n (0-based)
PairTerminates(n) == Terminates(mol_files[n + 1], protein_pdbs[n + 1])
PairOutcome(n) == ComplexHook(mol_files[n + 1], protein_pdbs[n + 1])
PairRaises(n) == PairTerminates(n) /\ IsException(PairOutcome(n))
PairNull(n) == PairTerminates(n) /\ PairOutcome(n) = None

Ended == pc \in {"returned", "raised"}

----------------------------------------------------------------------------
(* C1: for a batch featurizer called on a sequence of n items, whatever     *)
(* subset of the items fails, the call is not aborted by an item and the    *)
(* returned collection has exactly n entries, entry k being the result of   *)
(* input item k: the hook's value, or the empty array when item k failed.   *)
C1_LengthAndOrder ==
  (IsBatch /\ arg.t = "list") =>
    /\ (capability /\ log_every_n # 0) => pc # "raised"
    /\ pc = "returned" =>
         /\ Len(ret.elems) = Len(arg.elems)
         /\ \A k \in 1..Len(arg.elems) : ret.elems[k] = ItemResult(kind, arg.elems[k])

\* a returned three-item batch whose first and last items failed
C1_Witness ==
  /\ kind = "CompositionFeaturizer" /\ pc = "returned" /\ arg.t = "list"
  /\ Len(arg.elems) = 3
  /\ ItemFails(kind, arg.elems[1]) /\ ~ItemFails(kind, arg.elems[2])
  /\ ItemFails(kind, arg.elems[3])
  /\ ret.elems[2] # EmptyArray

(* C2: when the parse step or the hook raises for item i, the exception     *)
(* does not leave featurize: the loop step appends the empty array at index *)
(* i, keeps the entries before it and goes on to item i + 1; the entry a    *)
(* step appends depends on its own item only, whatever failed before.       *)
C2_FailureIsolated ==
  [][(IsBatch /\ pc = "loop" /\ i < Len(datapoints) /\ log_every_n # 0) =>
       /\ pc' = "loop" /\ exc' = Unset /\ i' = i + 1
       /\ Len(features') = i + 1
       /\ SubSeq(features', 1, i) = features
       /\ features'[i + 1] = ItemResult(kind, datapoints[i + 1])
       /\ ItemFails(kind, datapoints[i + 1]) => features'[i + 1] = EmptyArray]_vars

\* a returned molecular batch: the first string did not parse, the second did
C2_Witness ==
  /\ kind = "MolecularFeaturizer" /\ pc = "returned"
  /\ Len(datapoints) = 3
  /\ datapoints[1] = Str(<<"x">>) /\ datapoints[2] = Str(<<"a", "b">>)
  /\ datapoints[3] = Str(<<"h">>)
  /\ ret.elems[1] = EmptyArray /\ ret.elems[2] = Hook(MolFromSmiles(datapoints[2]))

\* the item kind of each batch featurizer
IsItemOf(k, v) ==
  CASE k = "MolecularFeaturizer" -> v.t \in {"str", "Mol"}
    [] k = "StructureFeaturizer" -> v.t = "dict"
    [] OTHER -> v.t = "str"

(* C3: for a single item x of the featurizer's item kind, featurize(x),     *)
(* featurize([x]) and __call__(x) all return the one-entry collection that  *)
(* holds the per-item result of x; x is wrapped, never iterated.            *)
C3_SingleItemWrapped ==
  \A x \in Items :
    (/\ IsBatch /\ IsItemOf(kind, x) /\ capability /\ log_every_n # 0
     /\ arg \in {x, List(<<x>>)}) =>
      /\ pc # "raised"
      /\ pc = "loop" => datapoints = <<x>>
      /\ pc = "returned" => ret = AsArray(<<ItemResult(kind, x)>>)

(* C4: when featurize_complexes returns, failures is exactly the indices    *)
(* whose hook returned None, in increasing order, features is exactly the   *)
(* results of the other indices in increasing index order, without          *)
(* placeholders, and len(features) + len(failures) = n.                     *)
C4_FeaturesAndFailures ==
  (IsComplex /\ pc = "returned") =>
    LET F == {n \in 0..(NumPairs - 1) : PairNull(n)}
        G == (0..(NumPairs - 1)) \ F
    IN /\ ret.elems[2].elems = [j \in 1..Cardinality(F) |-> PyInt(SortedSeq(F)[j])]
       /\ ret.elems[1].elems = [j \in 1..Cardinality(G) |-> PairOutcome(SortedSeq(G)[j])]
       /\ Len(ret.elems[1].elems) + Len(ret.elems[2].elems) = NumPairs

\* a returned call on three pairs whose middle hook returned None
C4_Witness ==
  /\ IsComplex /\ pc = "returned" /\ NumPairs = 3
  /\ ~PairNull(0) /\ PairNull(1) /\ ~PairNull(2)
  /\ mol_files[1] # mol_files[3]
  /\ ret.elems[2].elems = <<PyInt(1)>>

\* the pairs whose hook raises
Raising == {n \in 0..(NumPairs - 1) : PairRaises(n)}

\* the smallest element of a non-empty set of integers
Lowest(S) == CHOOSE n \in S : \A m \in S : n <= m

(* C5, as stated: if the hook of some pair raises, the ended call has       *)
(* raised that pair's exception, at the retrieval of that pair's result,    *)
(* and has returned nothing.                                                *)
C5_EveryRaisingPairSurfaces ==
  (IsComplex /\ Ended) =>
    \A n \in Raising :
      pc = "raised" /\ exc = PairOutcome(n) /\ ind = n /\ ret = Unset

(* C5, amended: if the hook of some pair raises, the ended call has raised  *)
(* the exception of the lowest-indexed raising pair, at the retrieval of    *)
(* that pair's result, and has returned nothing; only the results of lower  *)
(* indices were collected, and no raising pair is in the failure list or    *)
(* holds a row of features.                                                 *)
C5_FirstRaisingPairSurfaces ==
  (IsComplex /\ Raising # {}) =>
    /\ ind <= Lowest(Raising)
    /\ Len(features) + Len(failures) = ind
    /\ \A n \in Raising : PyInt(n) \notin Range(failures)
    /\ pc # "returned" /\ ret = Unset
    /\ pc = "raised" => exc = PairOutcome(Lowest(Raising)) /\ ind = Lowest(Raising)
    /\ exc # Unset => pc = "raised"

\* the hook of pair 1 raised, pair 2 finished all the same, and the call has
\* raised after collecting pair 0 only
C5_Witness ==
  /\ IsComplex /\ pc = "raised" /\ NumPairs = 3
  /\ Raising = {1}
  /\ results[3].ready
  /\ ind = 1 /\ Len(features) = 1 /\ failures = <<>>
  /\ exc = PairOutcome(1)

(* C6: when the parsing library of a molecular, structure or composition    *)
(* featurizer is not installed, featurize ends with ValueError only: the    *)
(* loop is never entered, no item is parsed or handed to the hook, no       *)
(* message is logged and nothing is returned; the molecular featurizer does *)
(* not even materialise its input.                                          *)
C6_MissingCapability ==
  (IsBatch /\ NeedsImport(kind) /\ ~capability) =>
    /\ pc \in {"import", "normalize", "raised"}
    /\ i = 0 /\ features = <<>> /\ log = <<>> /\ ret = Unset
    /\ pc = "raised" => exc = Exception("ValueError")
    /\ pc = "normalize" => exc = Unset
    /\ kind = "MolecularFeaturizer" => (pc # "normalize" /\ datapoints = <<>>)

\* a structure featurizer called on three items without pymatgen has raised
C6_Witness ==
  /\ kind = "StructureFeaturizer" /\ ~capability /\ pc = "raised"
  /\ arg.t = "list" /\ Len(arg.elems) = 3
  /\ exc = Exception("ValueError") /\ log = <<>>

\* the progress messages of the indices below n that are multiples of every
ExpectedProgress(n, every) ==
  LET due == {m \in 0..(n - 1) : Multiple(m, every)}
  IN [j \in 1..Cardinality(due) |-> ProgressRecord(SortedSeq(due)[j])]

\* what the loop made of the first n items, whatever log_every_n is
ExpectedFeatures(n) == [j \in 1..n |-> ItemResult(kind, datapoints[j])]

\* the call got past the import and the normalisation of its input
ReachedLoop ==
  pc \in {"loop", "returned"} \/ exc = Exception("ZeroDivisionError")

(* C7, as stated: for every value of log_every_n the progress messages are  *)
(* those of the indices that are multiples of log_every_n, in increasing    *)
(* order, the returned collection does not depend on log_every_n, and       *)
(* log_every_n never makes the call fail.                                   *)
C7_AnyLogEveryN ==
  (IsBatch /\ ReachedLoop) =>
    /\ pc # "raised"
    /\ log_every_n # 0 => SelectSeq(log, IsInfo) = ExpectedProgress(i, log_every_n)
    /\ features = ExpectedFeatures(i)
    /\ pc = "returned" => ret = AsArray(ExpectedFeatures(Len(datapoints)))

(* C7, amended: for every non-zero integer log_every_n the progress         *)
(* messages are those of the indices that are multiples of log_every_n,     *)
(* index 0 included, in increasing order and carrying the index, the        *)
(* returned collection does not depend on log_every_n, and log_every_n does *)
(* not make the call fail.                                                  *)
C7_NonZeroLogEveryN ==
  (IsBatch /\ ReachedLoop /\ log_every_n # 0) =>
    /\ pc # "raised"
    /\ SelectSeq(log, IsInfo) = ExpectedProgress(i, log_every_n)
    /\ features = ExpectedFeatures(i)
    /\ pc = "returned" => ret = AsArray(ExpectedFeatures(Len(datapoints)))

\* a returned three-item batch with log_every_n = 2: progress at 0 and 2 only
C7_Witness ==
  /\ IsBatch /\ pc = "returned" /\ log_every_n = 2 /\ Len(datapoints) = 3
  /\ SelectSeq(log, IsInfo) = <<ProgressRecord(0), ProgressRecord(2)>>
  /\ \E k \in 1..3 : ItemFails(kind, datapoints[k])

\* every task the pool holds, queued or at a worker
HeldTasks ==
  Range(taskq) \cup {worker[w].task : w \in {v \in Workers : worker[v].state # "idle"}}

\* features and failures after a sequential pass over the first n pairs
RECURSIVE Sequential(_)
Sequential(n) ==
  IF n = 0 THEN <<<<>>, <<>>>>
  ELSE Aggregate(Sequential(n - 1)[1], Sequential(n - 1)[2], n - 1, PairOutcome(n - 1))

(* C8: pairs are submitted in input order, every finished task's outcome is *)
(* attributed to the index of its own pair whenever it finished, and after  *)
(* any number of retrievals features and failures are what a sequential     *)
(* pass over the pairs in input order gives; so is the returned value.      *)
C8_SubmissionOrderAggregation ==
  IsComplex =>
    /\ \A k \in 1..Len(taskq) : k < Len(taskq) => taskq[k].idx + 1 = taskq[k + 1].idx
    /\ \A t \in HeldTasks :
         /\ t.idx < Len(results)
         /\ t.mol = mol_files[t.idx + 1] /\ t.protein = protein_pdbs[t.idx + 1]
    /\ \A k \in 1..Len(results) :
         results[k].ready => results[k].value = PairOutcome(k - 1)
    /\ pc \in {"collect", "returned", "raised"} =>
         /\ features = Sequential(ind)[1]
         /\ failures = Sequential(ind)[2]
    /\ pc = "returned" =>
         ret = Val("tuple", <<>>, <<AsArray(Sequential(NumPairs)[1]),
                                    List(Sequential(NumPairs)[2])>>)

\* a returned call whose pair 1 finished before pair 0
C8_Witness ==
  /\ IsComplex /\ pc = "returned" /\ NumPairs = 3
  /\ completed = <<1, 0, 2>>
  /\ PairNull(1) /\ ~PairNull(0) /\ ~PairNull(2)
  /\ mol_files[1] # mol_files[3]

\* every hook terminates without raising
AllHooksReturn ==
  \A n \in 0..(NumPairs - 1) : PairTerminates(n) /\ ~PairRaises(n)

(* C9: every pair is submitted before the pool is closed and before any     *)
(* result is retrieved, nothing is submitted after the close, the call      *)
(* returns only after the result of every submitted pair was retrieved, and *)
(* if every hook terminates without raising the call eventually returns.    *)
C9_SubmitCloseCollectReturn ==
  /\ [](closed => (Len(results) = NumPairs /\ i = NumPairs))
  /\ []((ind > 0 \/ pc \in {"collect", "returned", "raised"}) => closed)
  /\ [][closed => (Len(results') = Len(results) /\ Len(taskq') <= Len(taskq))]_vars
  /\ [](pc = "returned" =>
          (ind = NumPairs /\ \A k \in 1..Len(results) : results[k].ready))
  /\ (AllHooksReturn ~> pc = "returned")

\* a returned call on three pairs, none of which raised or hung
C9_Witness ==
  /\ IsComplex /\ pc = "returned" /\ NumPairs = 3 /\ AllHooksReturn
  /\ closed /\ ind = 3 /\ Len(failures) = 1

(* C10: every item whose parse step or hook raises causes exactly one       *)
(* warning, which names the index of the failing item; the items that       *)
(* succeed cause none.                                                      *)
C10_WarningNamesIndex ==
  (IsBatch /\ pc \in {"loop", "returned"}) =>
    LET failed == {n \in 0..(i - 1) : ItemFails(kind, datapoints[n + 1])}
        warnings == SelectSeq(log, IsWarning)
    IN /\ Len(warnings) = Cardinality(failed)
       /\ \A j \in 1..Len(warnings) :
            Contains(warnings[j].text, ToDecimal(SortedSeq(failed)[j]))

(* The part of C10 the four classes share: one warning per failing item,    *)
(* none for the others.                                                     *)
C10_OneWarningPerFailure ==
  (IsBatch /\ pc \in {"loop", "returned"}) =>
    Len(SelectSeq(log, IsWarning)) =
      Cardinality({n \in 0..(i - 1) : ItemFails(kind, datapoints[n + 1])})

====
